---- MODULE Spec2Model ----
(***************************************************************************)
(* The emission / dispersion / capture pipeline of greengrids and its      *)
(* persisted state file (static/data/bengaluru_area_temperatures.json).    *)
(*                                                                         *)
(* Amounts are integers: emission figures in hundredths (the code rounds   *)
(* to 2 decimals), raw random draws in thousandths, percentages in         *)
(* hundredths of a percent.                                                *)
(***************************************************************************)
EXTENDS Integers, Sequences, FiniteSets, TLC

VARIABLES
    file,   \* the persisted state file
    pre,    \* the file as it was when the last call started
    call,   \* the last call: operation and arguments
    ret,    \* what the last call returned to its Python caller
    resp,   \* what the HTTP route of the last call answered (NoResp: no route)
    proc,   \* what subprocess.run observed of the last call's kernel (NoProc: none)
    runs,   \* number of generator runs in direct succession, capped at 2
    gpc,    \* where a generator run is, when its steps are taken one by one
    gdata,  \* the generator's local `data`: what it loaded, with its figures
    gsnap,  \* the file as the generator loaded it
    gold,   \* the file as it was when the generator opened it for writing
    gmid,   \* the last call made between the generator's load and its open
    wf,     \* the states the current run_complete_workflow call went through
    wfinv   \* how often that call has called subprocess.run for the kernel

\* the variables of the step-by-step specifications
stepvars == <<gpc, gdata, gsnap, gold, gmid, wf, wfinv>>

vars ==
    <<file, pre, call, ret, resp, proc, runs, gpc, gdata, gsnap, gold, gmid, wf, wfinv>>

----------------------------------------------------------------------------
(* Bounds and input sets *)

\* number of entries (district keys and 'timestamp') of the initial store
MaxEntries == 2

Years == {"2024", "2025"}

\* the order in which `for year in data` visits the years of the file
YearIndex(y) == IF y = "2024" THEN 1 ELSE 2

\* keys that occur under a year: a suburban district, a district the
\* registry does not name, and the reserved metadata key
Names == {"Kolar", "Hubli", "timestamp"}

Seeds == {0, 1}

Scenarios == {"tree_planting"}

StderrTexts == {"bad wind value"}

----------------------------------------------------------------------------
(* Configuration tables *)

EMISSION_CONFIG ==
    [urban    |-> [transport   |-> [min |-> 1500, max |-> 3000],
                   industrial  |-> [min |-> 2000, max |-> 5000],
                   residential |-> [min |-> 800,  max |-> 1500]],
     rural    |-> [transport   |-> [min |-> 200,  max |-> 800],
                   industrial  |-> [min |-> 100,  max |-> 1000],
                   residential |-> [min |-> 1000, max |-> 2500]],
     suburban |-> [transport   |-> [min |-> 800,  max |-> 1800],
                   industrial  |-> [min |-> 500,  max |-> 2000],
                   residential |-> [min |-> 900,  max |-> 1800]]]

UrbanDistricts ==
    {"Bengaluru Urban", "Bangalore North", "Bangalore East", "Bangalore South",
     "Defence Colony", "Anekal", "Yelahanka taluku", "Thanisandra", "Herohalli",
     "Nagadevanahalli", "Uttarahalli", "Vasanthpura", "Yelchenahalli",
     "Jaraganahalli", "Puttenahalli", "Bilekhalli", "Kodichikkanahalli"}

SuburbanDistricts ==
    {"Hosakote", "Devanahalli", "Doddaballapura", "Nelmangala", "Ramanagara",
     "Chikkaballapura", "Kolar", "Tumakuru"}

DISTRICT_TYPES ==
    [d \in UrbanDistricts \cup SuburbanDistricts \cup {"default"} |->
        IF d \in UrbanDistricts THEN "urban"
        ELSE IF d \in SuburbanDistricts THEN "suburban"
        ELSE "rural"]

\* DistrictType with 'urban' for a name the registry does not have
DistrictType_DefaultUrban(d) ==
    IF d \in DOMAIN DISTRICT_TYPES THEN DISTRICT_TYPES[d] ELSE "urban"

\* DISTRICT_TYPES.get(district, DISTRICT_TYPES['default'])
DistrictType(d) ==
    IF d \in DOMAIN DISTRICT_TYPES THEN DISTRICT_TYPES[d] ELSE DISTRICT_TYPES["default"]

----------------------------------------------------------------------------
(* The store *)

EmissionFields ==
    {"transport_emission", "industrial_emission", "residential_emission",
     "total_emission"}

EmptyRec == [f \in {} |-> 0]

EmptyData == [y \in {} |-> <<>>]

\* An entry of a year: a key with its value, in insertion order.  The value
\* of a district key is an object (kind "obj", fields in rec); the value of
\* 'timestamp' is a string (kind "str").
Entry(n, k, r) == [name |-> n, kind |-> k, rec |-> r]

FileOk(d)   == [state |-> "ok", data |-> d]
FileMissing == [state |-> "missing", data |-> EmptyData]
FileCorrupt == [state |-> "corrupt", data |-> EmptyData]

\* the file between open(file_path, 'w'), which empties it, and the end of
\* json.dump: no JSON document can be parsed from it
FileTruncated == [state |-> "truncated", data |-> EmptyData]

KeysOf(entries) == {entries[i].name : i \in DOMAIN entries}

\* data[year][district]
Lookup(entries, d) == entries[CHOOSE i \in DOMAIN entries : entries[i].name = d]

\* district_data.get(field, default)
Get(rec, field, default) == IF field \in DOMAIN rec THEN rec[field] ELSE default

\* 'total_emission' in data[year][district]  (a substring test on a string
\* value, which the timestamp text does not pass)
HasTotal(e) == e.kind = "obj" /\ "total_emission" \in DOMAIN e.rec

----------------------------------------------------------------------------
(* Return values and HTTP answers *)

Ret(tag, val) == [tag |-> tag, val |-> val]

None     == Ret("none", <<>>)
Bool(b)  == Ret("bool", b)
List(s)  == Ret("list", s)
Dict(d)  == Ret("dict", d)

Http(status, body) == [status |-> status, body |-> body]

NoResp == Http(0, EmptyRec)

Call(op, year, district, scenario) ==
    [op |-> op, year |-> year, district |-> district, scenario |-> scenario]

Generator == "add_emission_data_to_json"

\* a call made while a generator run is under way: the file it started from
\* and what it returned
Mid(op, year, r, f) == [op |-> op, year |-> year, ret |-> r, pre |-> f]

NoMid == Mid("none", "", None, FileMissing)

----------------------------------------------------------------------------
(* emission_utils.py *)

\* The value random.random() contributes to the k-th draw of a run: the
\* generator's stream is a function of its seed.  0 is a draw near the
\* lower end of the range, 1 a draw near the upper end.
RandomBit(seed, k) == (seed + k) % 2

\* random.uniform(lo, hi), in thousandths
Uniform(lo, hi, u) == IF u = 0 THEN lo * 1000 + 4 ELSE hi * 1000 - 4

\* round(x, 2): thousandths to hundredths (nearest; no draw is a tie)
Round2(mills) == (mills + 5) \div 10

\* The k-th call of a run: three draws, each rounded to 2 decimals.
get_random_emission(district_type, seed, k) ==
    LET config == EMISSION_CONFIG[district_type] IN
    [transport_emission |->
        Round2(Uniform(config.transport.min, config.transport.max,
                       RandomBit(seed, 3 * k))),
     industrial_emission |->
        Round2(Uniform(config.industrial.min, config.industrial.max,
                       RandomBit(seed, 3 * k + 1))),
     residential_emission |->
        Round2(Uniform(config.residential.min, config.residential.max,
                       RandomBit(seed, 3 * k + 2)))]

\* json.load of the file; any failure is printed and {} returned
load_emission_data(f) == IF f.state = "ok" THEN f.data ELSE EmptyData

\* open(file_path, 'w') and json.dump; a failure to open leaves the file as
\* it is and returns False
save_emission_data(data, f, writable) ==
    IF writable THEN [file |-> FileOk(data), ok |-> TRUE]
    ELSE [file |-> f, ok |-> FALSE]

\* NeedsEmission without the test for an existing total_emission
NeedsEmission_Regenerate(e) == e.name # "timestamp"

\* the loop body's two `continue` tests
NeedsEmission(e) == e.name # "timestamp" /\ ~HasTotal(e)

\* the positions the loop generates figures for
Pending(data) ==
    UNION {{<<y, i>> : i \in {j \in DOMAIN data[y] : NeedsEmission(data[y][j])}} :
           y \in DOMAIN data}

\* how many calls of get_random_emission precede the one for data[y][i]
DrawRank(data, y, i) ==
    Cardinality({p \in Pending(data) :
                    \/ YearIndex(p[1]) < YearIndex(y)
                    \/ (p[1] = y /\ p[2] < i)})

\* WithEmissions assigning the new fields in place of the record
WithEmissions_Replace(rec, emissions) ==
    [total_emission |-> Round2(10 * (emissions.transport_emission
                                     + emissions.industrial_emission
                                     + emissions.residential_emission))]
        @@ emissions

\* data[year][district].update(emissions); then total_emission is set
WithEmissions(rec, emissions) ==
    LET total_emission == emissions.transport_emission
                          + emissions.industrial_emission
                          + emissions.residential_emission
    IN  [total_emission |-> Round2(10 * total_emission)] @@ emissions @@ rec

\* GenerateAll passing over the first key of every year
GenerateAll_SkipFirst(data, seed) ==
    [y \in DOMAIN data |->
        [i \in DOMAIN data[y] |->
            LET e == data[y][i] IN
            IF NeedsEmission(e) /\ i > 1
            THEN Entry(e.name, e.kind,
                       WithEmissions(e.rec,
                           get_random_emission(DistrictType(e.name), seed,
                                               DrawRank(data, y, i))))
            ELSE e]]

\* the two loops of add_emission_data_to_json over the loaded data
GenerateAll(data, seed) ==
    [y \in DOMAIN data |->
        [i \in DOMAIN data[y] |->
            LET e == data[y][i] IN
            IF NeedsEmission(e)
            THEN Entry(e.name, e.kind,
                       WithEmissions(e.rec,
                           get_random_emission(DistrictType(e.name), seed,
                                               DrawRank(data, y, i))))
            ELSE e]]

\* round((part / total) * 100, 2), in hundredths of a percent: the quotient
\* by long division, two decimal digits at a time, then rounded to nearest
Percentage(part, total) ==
    LET r0 == part % total
        r1 == (r0 * 100) % total
        r2 == (r1 * 100) % total
    IN  (part \div total) * 10000
        + ((r0 * 100) \div total) * 100
        + ((r1 * 100) \div total)
        + (IF 2 * r2 >= total THEN 1 ELSE 0)

\* get_emission_by_district: None, also when the division raises
get_emission_by_district(f, district_name, year) ==
    LET data == load_emission_data(f) IN
    IF year \notin DOMAIN data \/ district_name \notin KeysOf(data[year])
    THEN None
    ELSE LET district_data == Lookup(data[year], district_name)
             rec == district_data.rec
         IN  IF ~HasTotal(district_data) THEN None
             ELSE IF rec["total_emission"] = 0 THEN None  \* ZeroDivisionError
             ELSE Dict(
                [district |-> district_name,
                 year |-> year,
                 transport_emission |-> Get(rec, "transport_emission", 0),
                 industrial_emission |-> Get(rec, "industrial_emission", 0),
                 residential_emission |-> Get(rec, "residential_emission", 0),
                 total_emission |-> rec["total_emission"],
                 breakdown |->
                    [transport_percentage |->
                        Percentage(Get(rec, "transport_emission", 0),
                                   rec["total_emission"]),
                     industrial_percentage |->
                        Percentage(Get(rec, "industrial_emission", 0),
                                   rec["total_emission"]),
                     residential_percentage |->
                        Percentage(Get(rec, "residential_emission", 0),
                                   rec["total_emission"])]])

RECURSIVE EmissionViews(_, _, _)
\* the loop of get_all_districts_emission_data over data[year]
EmissionViews(f, entries, year) ==
    IF entries = <<>> THEN <<>>
    ELSE LET e == Head(entries)
             emission_data == get_emission_by_district(f, e.name, year)
         IN  IF e.name = "timestamp" \/ emission_data.tag = "none"
             THEN EmissionViews(f, Tail(entries), year)
             ELSE <<emission_data.val>> \o EmissionViews(f, Tail(entries), year)

\* get_all_districts_emission_data answering None for an absent year
get_all_districts_emission_data_None(f, year) ==
    LET data == load_emission_data(f) IN
    IF year \notin DOMAIN data THEN None
    ELSE List(EmissionViews(f, data[year], year))

get_all_districts_emission_data(f, year) ==
    LET data == load_emission_data(f) IN
    IF year \notin DOMAIN data THEN List(<<>>)
    ELSE List(EmissionViews(f, data[year], year))

----------------------------------------------------------------------------
(* The external kernels (dispersionModel.js, captureSimulation.js,         *)
(* dashboard.js), each run as a separate process by subprocess.run          *)

\* What subprocess.run observes of a kernel, and the file it leaves behind:
\* started = FALSE when the process cannot be spawned (subprocess.run raises,
\* and stderr then stands for the text of the exception).
Outcome(started, returncode, stderr, f) ==
    [started |-> started, returncode |-> returncode, stderr |-> stderr, file |-> f]

\* the part of an outcome that subprocess.run hands to the runner
Proc(out) ==
    [started |-> out.started, returncode |-> out.returncode, stderr |-> out.stderr]

NoProc == [started |-> FALSE, returncode |-> 0, stderr |-> ""]

\* The failures every kernel has: it cannot be spawned, or it exits non-zero
\* with text on its error stream and leaves the file alone.
KernelFailures(f) ==
    {Outcome(FALSE, 1, "[Errno 2] No such file or directory: 'node'", f)}
    \cup {Outcome(TRUE, 1, t, f) : t \in StderrTexts}

\* the records of a year replaced by recs, position by position, 'timestamp'
\* left alone
WriteYear(data, year, recs) ==
    [data EXCEPT ![year] =
        [i \in DOMAIN data[year] |->
            LET e == data[year][i] IN
            IF e.name = "timestamp" THEN e ELSE Entry(e.name, e.kind, recs[i])]]

\* diffusion kernel: co2_concentration_after_dispersion, and
\* co2_concentration where a record has none yet
Dispersed(rec, v) ==
    [co2_concentration_after_dispersion |-> v]
        @@ (IF "co2_concentration" \in DOMAIN rec THEN rec
            ELSE [co2_concentration |-> 8] @@ rec)

DisperseYear(data, year, v) ==
    IF year \notin DOMAIN data THEN data
    ELSE WriteYear(data, year,
                   [i \in DOMAIN data[year] |-> Dispersed(data[year][i].rec, v)])

DiffusionKernel(f, year) ==
    KernelFailures(f)
    \cup (IF f.state # "ok" THEN {}
          ELSE {Outcome(TRUE, 0, "", FileOk(DisperseYear(f.data, year, v))) :
                   v \in {3}})

\* capture kernel: the five capture fields of the scenario
Captured(rec, scenario) ==
    LET before  == Get(rec, "co2_concentration_after_dispersion", 0)
        capture == IF scenario = "baseline" THEN 0 ELSE before \div 3
    IN  [co2_before_capture |-> before,
         co2_after_capture |-> before - capture,
         total_capture |-> capture,
         percent_reduction |-> IF before = 0 THEN 0 ELSE (capture * 100) \div before,
         interventions |-> [scenario |-> scenario]] @@ rec

CaptureYear(data, year, scenario) ==
    IF year \notin DOMAIN data THEN data
    ELSE WriteYear(data, year,
                   [i \in DOMAIN data[year] |-> Captured(data[year][i].rec, scenario)])

CaptureKernel(f, scenario, year) ==
    KernelFailures(f)
    \cup (IF f.state # "ok" THEN {}
          ELSE {Outcome(TRUE, 0, "", FileOk(CaptureYear(f.data, year, scenario)))})

\* one end-to-end pass for a scenario and year: emission for the records of
\* the year that lack it, then dispersion, then capture
Pipeline(data, scenario, year, seed) ==
    LET ensured ==
            IF year \notin DOMAIN data THEN data
            ELSE [data EXCEPT ![year] =
                    GenerateAll([y \in {year} |-> data[year]], seed)[year]]
    IN  CaptureYear(DisperseYear(ensured, year, 3), year, scenario)

EndToEndKernel(f, scenario, year) ==
    KernelFailures(f)
    \cup (IF f.state # "ok" THEN {}
          ELSE {Outcome(TRUE, 0, "", FileOk(Pipeline(f.data, scenario, year, seed))) :
                   seed \in Seeds})

RECURSIVE PipelineAll(_, _, _, _)
PipelineAll(data, scenario_names, year, seed) ==
    IF scenario_names = <<>> THEN data
    ELSE PipelineAll(Pipeline(data, Head(scenario_names), year, seed),
                     Tail(scenario_names), year, seed)

ComparisonKernel(f, scenario_names, year) ==
    KernelFailures(f)
    \cup (IF f.state # "ok" THEN {}
          ELSE {Outcome(TRUE, 0, "",
                        FileOk(PipelineAll(f.data, scenario_names, year, seed))) :
                   seed \in Seeds})

----------------------------------------------------------------------------
(* dispersion_utils.py *)

\* DispersionEntries without the test for 'timestamp'
DispersionEntries_KeepAll(data, year) ==
    IF year \notin DOMAIN data THEN <<>>
    ELSE LET districts == data[year] IN
         [i \in DOMAIN districts |->
            [district |-> districts[i].name,
             year |-> year,
             initial_concentration |-> Get(districts[i].rec, "co2_concentration", 0),
             final_concentration |->
                Get(districts[i].rec, "co2_concentration_after_dispersion", 0),
             total_emission |-> Get(districts[i].rec, "total_emission", 0),
             neighbors |-> <<>>]]

\* the list built by the loop over data[year].items(), 'timestamp' skipped
DispersionEntries(data, year) ==
    IF year \notin DOMAIN data THEN <<>>
    ELSE LET districts == SelectSeq(data[year], LAMBDA e : e.name # "timestamp") IN
         [i \in DOMAIN districts |->
            [district |-> districts[i].name,
             year |-> year,
             initial_concentration |-> Get(districts[i].rec, "co2_concentration", 0),
             final_concentration |->
                Get(districts[i].rec, "co2_concentration_after_dispersion", 0),
             total_emission |-> Get(districts[i].rec, "total_emission", 0),
             neighbors |-> <<>>]]

\* run_dispersion_simulation without the test of the return code
run_dispersion_simulation_IgnoreExit(out, steps, wind_speed, wind_direction, year) ==
    IF ~out.started
    THEN Dict([error |-> "Error running dispersion simulation: " \o out.stderr])
    ELSE IF out.file.state # "ok"
    THEN Dict([error |-> "Error running dispersion simulation: " \o out.file.state])
    ELSE LET results == DispersionEntries(out.file.data, year) IN
         Dict([success |-> TRUE,
               simulation_params |->
                  [steps |-> steps,
                   wind |-> [speed |-> wind_speed, direction |-> wind_direction],
                   year |-> year],
               results |-> results,
               total_districts |-> Len(results)])

\* run_dispersion_simulation, given what the kernel did
run_dispersion_simulation(out, steps, wind_speed, wind_direction, year) ==
    IF ~out.started
    THEN Dict([error |-> "Error running dispersion simulation: " \o out.stderr])
    ELSE IF out.returncode # 0
    THEN Dict([error |-> "Dispersion simulation failed: " \o out.stderr])
    ELSE IF out.file.state # "ok"
    THEN Dict([error |-> "Error running dispersion simulation: " \o out.file.state])
    ELSE LET results == DispersionEntries(out.file.data, year) IN
         Dict([success |-> TRUE,
               simulation_params |->
                  [steps |-> steps,
                   wind |-> [speed |-> wind_speed, direction |-> wind_direction],
                   year |-> year],
               results |-> results,
               total_districts |-> Len(results)])

\* get_dispersion_results: [] when the file cannot be opened or parsed
get_dispersion_results(f, year) ==
    IF f.state # "ok" THEN List(<<>>)
    ELSE List(DispersionEntries(f.data, year))

run_capture_simulation(out, scenario_name, year) ==
    IF ~out.started
    THEN Dict([error |-> "Error running capture simulation: " \o out.stderr])
    ELSE IF out.returncode # 0
    THEN Dict([error |-> "Capture simulation failed: " \o out.stderr])
    ELSE Dict([success |-> TRUE, scenario_name |-> scenario_name, year |-> year])

\* CaptureEntries passing over the districts that have no capture fields
CaptureEntries_OnlyCaptured(data, year) ==
    IF year \notin DOMAIN data THEN <<>>
    ELSE LET districts ==
                 SelectSeq(data[year],
                           LAMBDA e : e.name # "timestamp"
                                      /\ "total_capture" \in DOMAIN e.rec) IN
         [i \in DOMAIN districts |->
            [district |-> districts[i].name,
             year |-> year,
             co2_before_capture |-> Get(districts[i].rec, "co2_before_capture", 0),
             co2_after_capture |-> Get(districts[i].rec, "co2_after_capture", 0),
             total_capture |-> Get(districts[i].rec, "total_capture", 0),
             percent_reduction |-> Get(districts[i].rec, "percent_reduction", 0),
             interventions |-> Get(districts[i].rec, "interventions", EmptyRec),
             total_emission |-> Get(districts[i].rec, "total_emission", 0)]]

\* the list built by the loop over data[year].items(), 'timestamp' skipped
CaptureEntries(data, year) ==
    IF year \notin DOMAIN data THEN <<>>
    ELSE LET districts == SelectSeq(data[year], LAMBDA e : e.name # "timestamp") IN
         [i \in DOMAIN districts |->
            [district |-> districts[i].name,
             year |-> year,
             co2_before_capture |-> Get(districts[i].rec, "co2_before_capture", 0),
             co2_after_capture |-> Get(districts[i].rec, "co2_after_capture", 0),
             total_capture |-> Get(districts[i].rec, "total_capture", 0),
             percent_reduction |-> Get(districts[i].rec, "percent_reduction", 0),
             interventions |-> Get(districts[i].rec, "interventions", EmptyRec),
             total_emission |-> Get(districts[i].rec, "total_emission", 0)]]

\* get_capture_results: [] when the file cannot be opened or parsed
get_capture_results(f, year) ==
    IF f.state # "ok" THEN List(<<>>)
    ELSE List(CaptureEntries(f.data, year))

\* run_complete_workflow without the test of the return code
run_complete_workflow_IgnoreExit(out, scenario_name, year) ==
    IF ~out.started
    THEN Dict([error |-> "Error running complete workflow: " \o out.stderr])
    ELSE Dict([success |-> TRUE, scenario_name |-> scenario_name, year |-> year])

run_complete_workflow(out, scenario_name, year) ==
    IF ~out.started
    THEN Dict([error |-> "Error running complete workflow: " \o out.stderr])
    ELSE IF out.returncode # 0
    THEN Dict([error |-> "Complete workflow failed: " \o out.stderr])
    ELSE Dict([success |-> TRUE, scenario_name |-> scenario_name, year |-> year])

compare_scenarios(out, scenario_names, year) ==
    IF ~out.started
    THEN Dict([error |-> "Error comparing scenarios: " \o out.stderr])
    ELSE IF out.returncode # 0
    THEN Dict([error |-> "Scenario comparison failed: " \o out.stderr])
    ELSE Dict([success |-> TRUE, scenario_names |-> scenario_names, year |-> year])

----------------------------------------------------------------------------
(* app.py: the routes, as functions of what the core returned *)

api_get_district_emissions(r) ==
    IF r.tag = "none" THEN Http(404, [error |-> "District not found"])
    ELSE Http(200, r.val)

api_get_all_emissions(r, year) ==
    Http(200, [year |-> year, districts |-> r.val, total_districts |-> Len(r.val)])

api_simulate_dispersion(r) ==
    IF "error" \in DOMAIN r.val THEN Http(500, [error |-> r.val.error])
    ELSE Http(200, r.val)

api_get_dispersion_results(r, year) ==
    Http(200, [year |-> year, results |-> r.val, total_districts |-> Len(r.val)])

api_simulate_capture(r, scenario_name, year) ==
    IF "error" \in DOMAIN r.val THEN Http(500, [error |-> r.val.error])
    ELSE Http(200, [success |-> TRUE, scenario_name |-> scenario_name, year |-> year,
                    message |-> "Capture simulation completed successfully"])

api_get_capture_results(r, scenario_name, year) ==
    Http(200, [scenario_name |-> scenario_name, year |-> year, results |-> r.val,
               total_districts |-> Len(r.val)])

api_run_complete_workflow(r, scenario_name, year) ==
    IF "error" \in DOMAIN r.val THEN Http(500, [error |-> r.val.error])
    ELSE Http(200, [success |-> TRUE, scenario_name |-> scenario_name, year |-> year,
                    message |-> "Complete workflow executed successfully"])

api_compare_scenarios(r, scenario_names, year) ==
    IF "error" \in DOMAIN r.val THEN Http(500, [error |-> r.val.error])
    ELSE Http(200, [success |-> TRUE, scenario_names |-> scenario_names, year |-> year,
                    message |-> "Scenario comparison completed successfully"])

----------------------------------------------------------------------------
(* Initial states: the file is missing, is not valid JSON, or holds a store *)

InitRecs ==
    {EmptyRec,
     [transport_emission |-> 0, industrial_emission |-> 0,
      residential_emission |-> 0, total_emission |-> 0]}

InitEntries ==
    {Entry("timestamp", "str", EmptyRec)}
    \cup {Entry(n, "obj", r) : n \in Names \ {"timestamp"}, r \in InitRecs}

\* the position of a key among the keys of a year of the initial store
KeyIndex(n) == IF n = "Kolar" THEN 1 ELSE IF n = "timestamp" THEN 2 ELSE 3

\* the contents a year can have with k keys: no key twice, keys in order
YearContents(k) ==
    {s \in [1..k -> InitEntries] :
        \A i, j \in 1..k : i < j => KeyIndex(s[i].name) < KeyIndex(s[j].name)}

\* a year is absent, or present with its keys
YearOptions(k) ==
    {[present |-> TRUE, entries |-> s] : s \in YearContents(k)}
    \cup (IF k = 0 THEN {[present |-> FALSE, entries |-> <<>>]} ELSE {})

InitStores ==
    UNION {UNION {{[y \in {yy \in Years : (IF yy = "2024" THEN a ELSE b).present} |->
                        (IF y = "2024" THEN a ELSE b).entries] :
                     a \in YearOptions(k1), b \in YearOptions(k2)} :
                  k2 \in 0..(MaxEntries - k1)} :
           k1 \in 0..MaxEntries}

InitFiles == {FileMissing, FileCorrupt} \cup {FileOk(d) : d \in InitStores}

Init ==
    /\ file \in InitFiles
    /\ pre = file
    /\ call = Call("none", "", "", "")
    /\ ret = None
    /\ resp = NoResp
    /\ proc = NoProc
    /\ runs = 0
    /\ gpc = "idle"
    /\ gdata = EmptyData
    /\ gsnap = FileMissing
    /\ gold = FileMissing
    /\ gmid = NoMid
    /\ wf = <<>>
    /\ wfinv = 0

----------------------------------------------------------------------------
(* Operations *)

\* python emission_utils.py: one run of the generator
AddEmissionDataToJson(seed, writable) ==
    LET data  == load_emission_data(file)
        saved == save_emission_data(GenerateAll(data, seed), file, writable)
    IN  /\ file' = saved.file
        /\ pre' = file
        /\ call' = Call("add_emission_data_to_json", "", "", "")
        /\ ret' = Bool(saved.ok)
        /\ resp' = NoResp
        /\ proc' = NoProc
        /\ runs' = IF runs < 2 THEN runs + 1 ELSE 2
        /\ UNCHANGED stepvars

\* GET /api/emissions/district/<district_name>
GetEmissionByDistrict(district_name, year) ==
    LET r == get_emission_by_district(file, district_name, year) IN
    /\ call' = Call("get_emission_by_district", year, district_name, "")
    /\ ret' = r
    /\ resp' = api_get_district_emissions(r)
    /\ pre' = file
    /\ proc' = NoProc
    /\ runs' = 0
    /\ UNCHANGED file
    /\ UNCHANGED stepvars

\* GET /api/emissions/all
GetAllDistrictsEmissionData(year) ==
    LET r == get_all_districts_emission_data(file, year) IN
    /\ call' = Call("get_all_districts_emission_data", year, "", "")
    /\ ret' = r
    /\ resp' = api_get_all_emissions(r, year)
    /\ pre' = file
    /\ proc' = NoProc
    /\ runs' = 0
    /\ UNCHANGED file
    /\ UNCHANGED stepvars

\* RunDispersionSimulation with a runner that saves what it can load of
\* the store when the kernel fails
RunDispersionSimulation_SaveBack(steps, wind_speed, wind_direction, year) ==
    \E out \in DiffusionKernel(file, year) :
        LET r == run_dispersion_simulation(out, steps, wind_speed, wind_direction, year)
        IN  /\ file' = IF out.started /\ out.returncode = 0 THEN out.file
                       ELSE FileOk(load_emission_data(out.file))
            /\ pre' = file
            /\ call' = Call("run_dispersion_simulation", year, "", "")
            /\ ret' = r
            /\ resp' = api_simulate_dispersion(r)
            /\ proc' = Proc(out)
            /\ runs' = 0
            /\ UNCHANGED stepvars

\* POST /api/dispersion/simulate
RunDispersionSimulation(steps, wind_speed, wind_direction, year) ==
    \E out \in DiffusionKernel(file, year) :
        LET r == run_dispersion_simulation(out, steps, wind_speed, wind_direction, year)
        IN  /\ file' = out.file
            /\ pre' = file
            /\ call' = Call("run_dispersion_simulation", year, "", "")
            /\ ret' = r
            /\ resp' = api_simulate_dispersion(r)
            /\ proc' = Proc(out)
            /\ runs' = 0
            /\ UNCHANGED stepvars

\* GET /api/dispersion/results
GetDispersionResults(year) ==
    LET r == get_dispersion_results(file, year) IN
    /\ call' = Call("get_dispersion_results", year, "", "")
    /\ ret' = r
    /\ resp' = api_get_dispersion_results(r, year)
    /\ pre' = file
    /\ proc' = NoProc
    /\ runs' = 0
    /\ UNCHANGED file
    /\ UNCHANGED stepvars

\* POST /api/capture/simulate
RunCaptureSimulation(scenario_name, year) ==
    \E out \in CaptureKernel(file, scenario_name, year) :
        LET r == run_capture_simulation(out, scenario_name, year) IN
        /\ file' = out.file
        /\ pre' = file
        /\ call' = Call("run_capture_simulation", year, "", scenario_name)
        /\ ret' = r
        /\ resp' = api_simulate_capture(r, scenario_name, year)
        /\ proc' = Proc(out)
        /\ runs' = 0
        /\ UNCHANGED stepvars

\* GET /api/capture/results/<scenario_name>
GetCaptureResults(scenario_name, year) ==
    LET r == get_capture_results(file, year) IN
    /\ call' = Call("get_capture_results", year, "", scenario_name)
    /\ ret' = r
    /\ resp' = api_get_capture_results(r, scenario_name, year)
    /\ pre' = file
    /\ proc' = NoProc
    /\ runs' = 0
    /\ UNCHANGED file
    /\ UNCHANGED stepvars

\* POST /api/workflow/run
RunCompleteWorkflow(scenario_name, year) ==
    \E out \in EndToEndKernel(file, scenario_name, year) :
        LET r == run_complete_workflow(out, scenario_name, year) IN
        /\ file' = out.file
        /\ pre' = file
        /\ call' = Call("run_complete_workflow", year, "", scenario_name)
        /\ ret' = r
        /\ resp' = api_run_complete_workflow(r, scenario_name, year)
        /\ proc' = Proc(out)
        /\ runs' = 0
        /\ UNCHANGED stepvars

\* POST /api/workflow/compare
CompareScenarios(scenario_names, year) ==
    \E out \in ComparisonKernel(file, scenario_names, year) :
        LET r == compare_scenarios(out, scenario_names, year) IN
        /\ file' = out.file
        /\ pre' = file
        /\ call' = Call("compare_scenarios", year, "", scenario_names)
        /\ ret' = r
        /\ resp' = api_compare_scenarios(r, scenario_names, year)
        /\ proc' = Proc(out)
        /\ runs' = 0
        /\ UNCHANGED stepvars

Next ==
    \/ \E seed \in Seeds, writable \in BOOLEAN : AddEmissionDataToJson(seed, writable)
    \/ \E d \in Names, y \in Years : GetEmissionByDistrict(d, y)
    \/ \E y \in Years : GetAllDistrictsEmissionData(y)
    \/ \E wd \in {"NE"}, y \in Years : RunDispersionSimulation(20, 5, wd, y)
    \/ \E y \in Years : GetDispersionResults(y)
    \/ \E s \in Scenarios, y \in Years : RunCaptureSimulation(s, y)
    \/ \E s \in Scenarios, y \in Years : GetCaptureResults(s, y)
    \/ \E s \in Scenarios, y \in Years : RunCompleteWorkflow(s, y)
    \/ \E y \in Years : CompareScenarios(<<"baseline", "tree_planting">>, y)

Spec == Init /\ [][Next]_vars

----------------------------------------------------------------------------
(* run_complete_workflow, step by step: the call is entered, subprocess.run  *)
(* returns or raises, and the function returns                              *)

\* the state a call ends in, by the return statement it leaves through
WorkflowState(r) == IF "error" \in DOMAIN r.val THEN "FAILED" ELSE "CAPTURE_DONE"

WorkflowEnded ==
    IF Len(wf) = 0 THEN TRUE ELSE wf[Len(wf)] \in {"FAILED", "CAPTURE_DONE"}

\* POST /api/workflow/run arrives: a new call, nothing invoked yet
WorkflowCalled(scenario_name, year) ==
    /\ WorkflowEnded
    /\ wf' = <<"PENDING">>
    /\ wfinv' = 0
    /\ call' = Call("run_complete_workflow", year, "", scenario_name)
    /\ pre' = file
    /\ ret' = None
    /\ resp' = NoResp
    /\ proc' = NoProc
    /\ runs' = 0
    /\ UNCHANGED <<file, gpc, gdata, gsnap, gold, gmid>>

\* subprocess.run(['node', 'dashboard.js', scenario_name, year]) is over, and
\* the function returns
WorkflowKernelReturns ==
    /\ ~WorkflowEnded
    /\ \E out \in EndToEndKernel(file, call.scenario, call.year) :
          LET r == run_complete_workflow(out, call.scenario, call.year) IN
          /\ file' = out.file
          /\ proc' = Proc(out)
          /\ wfinv' = wfinv + 1
          /\ ret' = r
          /\ resp' = api_run_complete_workflow(r, call.scenario, call.year)
          /\ wf' = Append(wf, WorkflowState(r))
    /\ UNCHANGED <<pre, call, runs, gpc, gdata, gsnap, gold, gmid>>

NextWorkflow ==
    \/ \E s \in Scenarios, y \in Years : WorkflowCalled(s, y)
    \/ WorkflowKernelReturns

SpecWorkflow == Init /\ [][NextWorkflow]_vars

----------------------------------------------------------------------------
(* add_emission_data_to_json, step by step, with the dispersion runner and   *)
(* the dispersion query called by other processes in between: the generator  *)
(* loads, fills its local data, opens the file for writing, and dumps        *)

\* load_emission_data and the two loops, on the generator's local data
GenLoad(seed) ==
    /\ gpc \in {"idle", "done"}
    /\ gpc' = "loaded"
    /\ gdata' = GenerateAll(load_emission_data(file), seed)
    /\ gsnap' = file
    /\ gold' = FileMissing
    /\ gmid' = NoMid
    /\ call' = Call("none", "", "", "")
    /\ pre' = file
    /\ ret' = None
    /\ resp' = NoResp
    /\ proc' = NoProc
    /\ runs' = 0
    /\ UNCHANGED <<file, wf, wfinv>>

\* save_emission_data: open(file_path, 'w') empties the file, or raises and
\* False is returned
GenOpen(writable) ==
    /\ gpc = "loaded"
    /\ gold' = file
    /\ gmid' = Mid(call.op, call.year, ret, pre)
    /\ IF writable
       THEN /\ file' = FileTruncated
            /\ gpc' = "opened"
            /\ UNCHANGED <<call, pre, ret>>
       ELSE /\ file' = save_emission_data(gdata, file, FALSE).file
            /\ gpc' = "done"
            /\ call' = Call(Generator, "", "", "")
            /\ pre' = gsnap
            /\ ret' = Bool(save_emission_data(gdata, file, FALSE).ok)
    /\ resp' = NoResp
    /\ proc' = NoProc
    /\ UNCHANGED <<gdata, gsnap, runs, wf, wfinv>>

\* GenClose writing the figures into the file as it was at open, not into
\* what the generator loaded
GenClose_Reload ==
    /\ gpc = "opened"
    /\ file' = FileOk(GenerateAll(load_emission_data(gold), 0))
    /\ gpc' = "done"
    /\ call' = Call(Generator, "", "", "")
    /\ pre' = gsnap
    /\ ret' = Bool(TRUE)
    /\ resp' = NoResp
    /\ proc' = NoProc
    /\ UNCHANGED <<gdata, gsnap, gold, gmid, runs, wf, wfinv>>

\* save_emission_data: json.dump(data, f) is over and the file is closed
GenClose ==
    /\ gpc = "opened"
    /\ file' = save_emission_data(gdata, file, TRUE).file
    /\ gpc' = "done"
    /\ call' = Call(Generator, "", "", "")
    /\ pre' = gsnap
    /\ ret' = Bool(save_emission_data(gdata, file, TRUE).ok)
    /\ resp' = NoResp
    /\ proc' = NoProc
    /\ UNCHANGED <<gdata, gsnap, gold, gmid, runs, wf, wfinv>>

NextConc ==
    \/ \E seed \in Seeds : GenLoad(seed)
    \/ \E writable \in BOOLEAN : GenOpen(writable)
    \/ GenClose
    \/ \E y \in Years : RunDispersionSimulation(20, 5, "NE", y)
    \/ \E y \in Years : GetDispersionResults(y)

SpecConc == Init /\ [][NextConc]_vars

----------------------------------------------------------------------------
(* Properties *)

ListQueries ==
    {"get_all_districts_emission_data", "get_dispersion_results", "get_capture_results"}

Queries == ListQueries \cup {"get_emission_by_district"}

Runners ==
    {"run_dispersion_simulation", "run_capture_simulation", "run_complete_workflow",
     "compare_scenarios"}

\* the kernel of the last call ran and exited with a non-zero status
KernelExitedNonZero == proc.started /\ proc.returncode # 0

\* the positions of the store the last call started from
Positions(d) == UNION {{<<y, i>> : i \in DOMAIN d[y]} : y \in DOMAIN d}

\* the entry the file now has where the store had data[y][i]
Now(y, i) == file.data[y][i]

StillThere(y, i) ==
    /\ file.state = "ok"
    /\ y \in DOMAIN file.data
    /\ i \in DOMAIN file.data[y]
    /\ Now(y, i).name = pre.data[y][i].name

\* C1: a run of the generator leaves every record that already has
\* total_emission exactly as it was, so a run that follows another run changes
\* no total_emission and no component figure; a run that finds nothing to
\* generate leaves the whole store as it was.
C1_IdempotentGeneration ==
    call.op = Generator =>
        /\ \A p \in Positions(pre.data) :
              HasTotal(pre.data[p[1]][p[2]]) =>
                  /\ StillThere(p[1], p[2])
                  /\ Now(p[1], p[2]) = pre.data[p[1]][p[2]]
        /\ (pre.state = "ok" /\ Pending(pre.data) = {}) => file = pre

\* a second run in succession, over figures that a run generated
C1_Witness ==
    /\ call.op = Generator
    /\ runs = 2
    /\ ret = Bool(TRUE)
    /\ \E p \in Positions(pre.data) :
          /\ HasTotal(pre.data[p[1]][p[2]])
          /\ pre.data[p[1]][p[2]].rec["total_emission"] > 0

\* C2: whatever operation ran last, every key of the store is still there
\* with every field it had, and a record that had total_emission has the
\* same four emission figures.
C2_MonotonicAccumulation ==
    \A p \in Positions(pre.data) :
        LET old == pre.data[p[1]][p[2]] IN
        /\ StillThere(p[1], p[2])
        /\ DOMAIN old.rec \subseteq DOMAIN Now(p[1], p[2]).rec
        /\ HasTotal(old) =>
              \A f \in EmissionFields \cap DOMAIN old.rec :
                  Now(p[1], p[2]).rec[f] = old.rec[f]

\* capture ran over a record that carries emission and dispersion fields
C2_Witness ==
    /\ call.op = "run_capture_simulation"
    /\ "success" \in DOMAIN ret.val
    /\ \E p \in Positions(pre.data) :
          /\ EmissionFields \cup {"co2_concentration_after_dispersion"}
                \subseteq DOMAIN pre.data[p[1]][p[2]].rec
          /\ pre.data[p[1]][p[2]].rec["total_emission"] > 0
          /\ "co2_before_capture" \notin DOMAIN pre.data[p[1]][p[2]].rec
          /\ "co2_before_capture" \in DOMAIN Now(p[1], p[2]).rec

\* C3: no list a query or run_dispersion_simulation returns has an entry for
\* 'timestamp', and the generator leaves the 'timestamp' key without emission
\* fields.
C3_SentinelSkipped ==
    /\ call.op \in ListQueries =>
          \A i \in DOMAIN ret.val : ret.val[i].district # "timestamp"
    /\ (call.op = "run_dispersion_simulation" /\ "results" \in DOMAIN ret.val) =>
          \A i \in DOMAIN ret.val.results : ret.val.results[i].district # "timestamp"
    /\ call.op = Generator =>
          \A p \in Positions(file.data) :
              Now(p[1], p[2]).name = "timestamp" =>
                  DOMAIN Now(p[1], p[2]).rec \cap EmissionFields = {}

\* a list of a year that has the 'timestamp' key and a district
C3_Witness ==
    /\ call.op = "get_dispersion_results"
    /\ pre.state = "ok"
    /\ call.year \in DOMAIN pre.data
    /\ "timestamp" \in KeysOf(pre.data[call.year])
    /\ Len(ret.val) > 0

\* C4: over a readable store without the year asked for, the three list
\* queries return the empty list and their routes answer 200 without an
\* error, and the single-district query returns None.
C4_MissingYear ==
    (call.op \in Queries /\ pre.state = "ok" /\ call.year \notin DOMAIN pre.data) =>
        /\ call.op \in ListQueries =>
              /\ ret.tag = "list"
              /\ Len(ret.val) = 0
              /\ resp.status = 200
              /\ "error" \notin DOMAIN resp.body
        /\ call.op = "get_emission_by_district" => ret.tag = "none"

\* the emission list of a year the store lacks, the store having another year
C4_Witness ==
    /\ call.op = "get_all_districts_emission_data"
    /\ pre.state = "ok"
    /\ call.year \notin DOMAIN pre.data
    /\ \E y \in DOMAIN pre.data : Len(pre.data[y]) > 0

\* C5 (as amended): when the diffusion kernel exits non-zero,
\* run_dispersion_simulation returns a dict with the one key 'error', whose
\* text is "Dispersion simulation failed: " followed by the kernel's stderr.
C5_DispersionFailure ==
    (call.op = "run_dispersion_simulation" /\ KernelExitedNonZero) =>
        /\ ret.tag = "dict"
        /\ DOMAIN ret.val = {"error"}
        /\ ret.val.error = "Dispersion simulation failed: " \o proc.stderr

\* C5 as stated: the message is the kernel's stderr text itself
C5_MessageIsStderr ==
    (call.op = "run_dispersion_simulation" /\ KernelExitedNonZero) =>
        /\ DOMAIN ret.val = {"error"}
        /\ ret.val.error = proc.stderr

\* the kernel exited 1 with "bad wind value" on its error stream
C5_Witness ==
    /\ call.op = "run_dispersion_simulation"
    /\ KernelExitedNonZero
    /\ proc.stderr = "bad wind value"
    /\ resp.status = 500

\* C6: a run_dispersion_simulation whose kernel exited non-zero leaves the
\* file as it was; so does every runner whose kernel failed or could not be
\* started, and every query.
C6_FailureLeavesStore ==
    /\ (call.op \in Runners /\ (KernelExitedNonZero \/ ~proc.started)) => file = pre
    /\ call.op \in Queries => file = pre

\* a failed dispersion run over a store that has records
C6_Witness ==
    /\ call.op = "run_dispersion_simulation"
    /\ KernelExitedNonZero
    /\ pre.state = "ok"
    /\ call.year \in DOMAIN pre.data
    /\ \E i \in DOMAIN pre.data[call.year] : pre.data[call.year][i].name # "timestamp"

\* C7 as stated: over a file that is missing or not valid JSON, the route of
\* every query answers with an error payload and a status other than 200.
C7_ReadFailurePropagated ==
    (call.op \in Queries /\ pre.state # "ok") =>
        /\ resp.status # 200
        /\ "error" \in DOMAIN resp.body

\* C8 as stated: when the generator cannot load the file, it returns False
\* and the file is left as it was.
C8_GeneratorPropagatesLoadFailure ==
    (call.op = Generator /\ pre.state = "corrupt") =>
        /\ ret = Bool(FALSE)
        /\ file = pre

\* C9 (as amended): a successful run of the generator creates no year and no
\* key: it gives the four emission fields to the district records that lacked
\* total_emission, under every year, and leaves an empty store empty.
C9_GenerationOfPresentDistricts ==
    (call.op = Generator /\ ret = Bool(TRUE)) =>
        /\ file.state = "ok"
        /\ DOMAIN file.data = DOMAIN pre.data
        /\ \A y \in DOMAIN pre.data :
              /\ Len(file.data[y]) = Len(pre.data[y])
              /\ \A i \in DOMAIN pre.data[y] :
                    /\ Now(y, i).name = pre.data[y][i].name
                    /\ Now(y, i).name # "timestamp" =>
                          "total_emission" \in DOMAIN Now(y, i).rec
                    /\ NeedsEmission(pre.data[y][i]) =>
                          EmissionFields \subseteq DOMAIN Now(y, i).rec

\* C9 as stated: after a run over the empty store, every district of the
\* registry has a record under "2025" with the four emission fields.
C9_RegistryPopulated ==
    (call.op = Generator /\ ret = Bool(TRUE) /\ pre = FileOk(EmptyData)) =>
        /\ "2025" \in DOMAIN file.data
        /\ \A d \in DOMAIN DISTRICT_TYPES \ {"default"} :
              /\ d \in KeysOf(file.data["2025"])
              /\ EmissionFields \subseteq DOMAIN Lookup(file.data["2025"], d).rec

\* a successful run over the empty store
C9_Witness ==
    /\ call.op = Generator
    /\ ret = Bool(TRUE)
    /\ pre = FileOk(EmptyData)
    /\ file = FileOk(EmptyData)

\* C10 as stated: for a record whose total_emission is 0 the district query
\* returns a view whose three percentages are 0.
C10_DivisionGuard ==
    (/\ call.op = "get_emission_by_district"
     /\ pre.state = "ok"
     /\ call.year \in DOMAIN pre.data
     /\ call.district \in KeysOf(pre.data[call.year])
     /\ HasTotal(Lookup(pre.data[call.year], call.district))
     /\ Lookup(pre.data[call.year], call.district).rec["total_emission"] = 0) =>
        /\ ret.tag = "dict"
        /\ ret.val.breakdown.transport_percentage = 0
        /\ ret.val.breakdown.industrial_percentage = 0
        /\ ret.val.breakdown.residential_percentage = 0

\* C11: a run_complete_workflow call is PENDING until the kernel is over and
\* then in one of FAILED and CAPTURE_DONE, for good; by then subprocess.run
\* has been called for the kernel once, never twice; the call is FAILED
\* with an error result exactly when the kernel exited non-zero or could not
\* be started, and CAPTURE_DONE with success, scenario_name and year otherwise.
C11_WorkflowStateMachine ==
    /\ wf \in {<<>>, <<"PENDING">>, <<"PENDING", "FAILED">>,
              <<"PENDING", "CAPTURE_DONE">>}
    /\ Len(wf) = 1 => wfinv = 0
    /\ Len(wf) = 2 =>
          /\ wfinv = 1
          /\ wf[2] = "FAILED" <=> (~proc.started \/ proc.returncode # 0)
          /\ wf[2] = "FAILED" => DOMAIN ret.val = {"error"} /\ resp.status = 500
          /\ wf[2] = "CAPTURE_DONE" =>
                ret.val = [success |-> TRUE, scenario_name |-> call.scenario,
                           year |-> call.year]

\* a call whose kernel exited non-zero
C11_Witness ==
    /\ wf = <<"PENDING", "FAILED">>
    /\ proc.started
    /\ proc.returncode # 0
    /\ wfinv = 1

\* the generator has just returned from a save that succeeded
GeneratorSaved == call.op = Generator /\ gpc = "done" /\ ret = Bool(TRUE)

\* the fields that were written to the record at data[y][i] of the file after
\* the generator loaded it and before the generator opened it for writing
WrittenBetween(y, i) ==
    IF gold.state = "ok" /\ gsnap.state = "ok"
    THEN {f \in DOMAIN gold.data[y][i].rec : f \notin DOMAIN gsnap.data[y][i].rec}
    ELSE {}

\* C12: when the dispersion runner writes between the generator's load and
\* the generator's save, the file after the save holds what the generator
\* loaded plus its figures and none of the fields the runner wrote, although
\* the runner that wrote them answered success and the generator True (here:
\* the runner called last before the open, on the file as loaded); when nothing was
\* written in between, every field the file had before the save is still in
\* it with its value.
C12_LostUpdate ==
    GeneratorSaved =>
        /\ file.state = "ok"
        /\ DOMAIN file.data = DOMAIN load_emission_data(gsnap)
        /\ \A p \in Positions(file.data) :
              /\ Now(p[1], p[2]).name = gsnap.data[p[1]][p[2]].name
              /\ DOMAIN Now(p[1], p[2]).rec \ EmissionFields
                    = DOMAIN gsnap.data[p[1]][p[2]].rec \ EmissionFields
              /\ \A f \in WrittenBetween(p[1], p[2]) : f \notin DOMAIN Now(p[1], p[2]).rec
        /\ (gmid.op = "run_dispersion_simulation" /\ gmid.pre = gsnap /\ gold # gsnap) =>
              "success" \in DOMAIN gmid.ret.val
        /\ (gold = gsnap) =>
              \A p \in Positions(load_emission_data(gold)) :
                 \A f \in DOMAIN gold.data[p[1]][p[2]].rec :
                    /\ f \in DOMAIN Now(p[1], p[2]).rec
                    /\ Now(p[1], p[2]).rec[f] = gold.data[p[1]][p[2]].rec[f]

C12_Witness ==
    /\ GeneratorSaved
    /\ gmid.op = "run_dispersion_simulation"
    /\ gmid.pre = gsnap
    /\ "success" \in DOMAIN gmid.ret.val
    /\ \E p \in Positions(file.data) :
          /\ "co2_concentration_after_dispersion" \in WrittenBetween(p[1], p[2])
          /\ "co2_concentration_after_dispersion" \notin DOMAIN Now(p[1], p[2]).rec
          /\ "total_emission" \in DOMAIN Now(p[1], p[2]).rec
          /\ "total_emission" \notin DOMAIN gsnap.data[p[1]][p[2]].rec

\* C15 (as claimed): a query that runs while the generator is saving never
\* loads an empty or partly written file; between the generator's open and
\* the end of its dump, get_dispersion_results answers what the file held
\* before the save or what it holds after it.
C15_AtomicSave ==
    (call.op = "get_dispersion_results" /\ gpc = "opened") =>
        /\ pre.state # "truncated"
        /\ ret \in {List(DispersionEntries(load_emission_data(gold), call.year)),
                    List(DispersionEntries(gdata, call.year))}

\* the numeric fields of an entry of the capture results
CaptureNumbers ==
    {"co2_before_capture", "co2_after_capture", "total_capture", "percent_reduction",
     "total_emission"}

\* the district keys of a year of the store the last call started from
DistrictsOf(year) ==
    {i \in DOMAIN pre.data[year] : pre.data[year][i].name # "timestamp"}

\* C13: for a year the store has, get_capture_results returns one entry for
\* each key of the year other than 'timestamp' and no other entry, also for a
\* district that has no capture fields; each numeric field of an entry is the
\* record's value, or 0 where the record has none, and the route answers 200.
C13_CaptureCoversEveryDistrict ==
    (call.op = "get_capture_results" /\ pre.state = "ok"
        /\ call.year \in DOMAIN pre.data) =>
        /\ ret.tag = "list"
        /\ Len(ret.val) = Cardinality(DistrictsOf(call.year))
        /\ \A i \in DistrictsOf(call.year) :
              LET e == pre.data[call.year][i]
                  found == {k \in DOMAIN ret.val : ret.val[k].district = e.name}
              IN  /\ Cardinality(found) = 1
                  /\ \A k \in found : \A f \in CaptureNumbers :
                        ret.val[k][f] = IF f \in DOMAIN e.rec THEN e.rec[f] ELSE 0
        /\ resp.status = 200

C13_Witness ==
    /\ call.op = "get_capture_results"
    /\ pre.state = "ok"
    /\ call.year \in DOMAIN pre.data
    /\ "timestamp" \in KeysOf(pre.data[call.year])
    /\ \E i \in DistrictsOf(call.year) :
          /\ DOMAIN pre.data[call.year][i].rec \cap CaptureNumbers = {}
          /\ \E k \in DOMAIN ret.val :
                /\ ret.val[k].district = pre.data[call.year][i].name
                /\ ret.val[k].total_capture = 0

\* the records a generator run populates: the district keys of the store it
\* loaded that had no total_emission
Populated ==
    {p \in Positions(load_emission_data(pre)) :
        /\ pre.data[p[1]][p[2]].name # "timestamp"
        /\ "total_emission" \notin DOMAIN pre.data[p[1]][p[2]].rec}

\* the [min, max] range of a component for a district name, in hundredths
RangeOf(name, component) ==
    LET class == IF name \in UrbanDistricts THEN "urban"
                 ELSE IF name \in SuburbanDistricts THEN "suburban"
                 ELSE "rural"
    IN  [min |-> 100 * EMISSION_CONFIG[class][component].min,
         max |-> 100 * EMISSION_CONFIG[class][component].max]

InRange(v, r) == r.min <= v /\ v <= r.max

\* C14: every record a successful generator run populates has each of its
\* three components within the range of the district's class (the class the
\* registry gives the name, 'rural' for a name it does not have) and
\* total_emission equal to the sum of the three components.
C14_WellFormedFigures ==
    (call.op = Generator /\ ret = Bool(TRUE)) =>
        \A p \in Populated :
            /\ StillThere(p[1], p[2])
            /\ LET name == Now(p[1], p[2]).name
                   rec  == Now(p[1], p[2]).rec
               IN  /\ EmissionFields \subseteq DOMAIN rec
                   /\ InRange(rec.transport_emission, RangeOf(name, "transport"))
                   /\ InRange(rec.industrial_emission, RangeOf(name, "industrial"))
                   /\ InRange(rec.residential_emission, RangeOf(name, "residential"))
                   /\ rec.total_emission = rec.transport_emission
                                           + rec.industrial_emission
                                           + rec.residential_emission

C14_Witness ==
    /\ call.op = Generator
    /\ ret = Bool(TRUE)
    /\ \E p, q \in Populated :
          /\ Now(p[1], p[2]).name = "Kolar"
          /\ Now(q[1], q[2]).name = "Hubli"
          /\ Now(p[1], p[2]).rec.transport_emission >= 80000
          /\ Now(q[1], q[2]).rec.transport_emission <= 80000

\* C16 (as claimed): a generator run asked for a year adds fields only under
\* that year: whichever year was asked for, the entries under every other
\* year of the store are after the run what they were before it.
C16_ScopedToYear ==
    (call.op = Generator /\ ret = Bool(TRUE) /\ pre.state = "ok") =>
        \E year \in Years :
            \A y \in DOMAIN pre.data \ {year} :
                /\ file.state = "ok"
                /\ y \in DOMAIN file.data
                /\ file.data[y] = pre.data[y]
====
